---- MODULE Spec2Model ----
(***************************************************************************)
(* Model of src/index.ts: the Notion (store A) / Morgen (store B)          *)
(* synchronisation script.  Strings that the code takes apart (the event   *)
(* description with its #PAGEID tag, the date with its 'T' separator) are  *)
(* sequences of tokens; identifiers and titles are atomic strings;         *)
(* timestamps are fixed-width digit sequences compared lexically.          *)
(***************************************************************************)
EXTENDS Integers, Sequences, FiniteSets, TLC

\* ------------------------------------------------------------------ bounds
\* identifiers the Notion API can hand out (pages ever created)
MaxPages == 2
\* identifiers the Morgen API can hand out (events ever created)
MaxEvents == 2
\* upstream (user) actions over a behaviour
MaxEdits == 1
\* external calls that fail over a behaviour
MaxFail == 1
\* largest value of the wall clock
MaxTime == 3
\* invocations of main that can be in flight at once
MaxOverlap == 2
\* longest sequence handed to a function studied on its own
MaxLen == 2

PageIdSeq == <<"P1", "P2", "P3", "P4">>
EventIdSeq == <<"E1", "E2", "E3", "E4">>
PageIds == {PageIdSeq[i] : i \in 1..MaxPages}
EventIds == {EventIdSeq[i] : i \in 1..MaxEvents}
Titles == {"X", "Y"}
Slots == 1..MaxOverlap

\* ------------------------------------------------------------ small helpers
Range(s) == {s[i] : i \in 1..Len(s)}

\* position of an identifier in the order the store hands identifiers out
IdIndex(ids, id) == CHOOSE i \in 1..Len(ids) : ids[i] = id

\* ISO-8601 time stamp of clock value t: fixed width, most significant first
IsoTime(t) == <<t \div 10, t % 10>>

\* JavaScript's > on strings: lexicographic, a proper prefix is smaller
RECURSIVE LexGreater(_, _)
LexGreater(a, b) ==
  IF a = <<>> THEN FALSE
  ELSE IF b = <<>> THEN TRUE
  ELSE IF Head(a) # Head(b) THEN Head(a) > Head(b)
  ELSE LexGreater(Tail(a), Tail(b))

\* ------------------------------------------------------------- descriptions
TagOpen == "#PAGEID:"
TagClose == "#"
Space == " "
\* tokens matched by the character class [\w-]
WordTokens == {"d"} \cup Range(PageIdSeq) \cup Range(EventIdSeq)

\* String.prototype.trim on a token sequence
RECURSIVE TrimLeft(_)
TrimLeft(s) == IF s # <<>> /\ Head(s) = Space THEN TrimLeft(Tail(s)) ELSE s
RECURSIVE TrimRight(_)
TrimRight(s) ==
  IF s # <<>> /\ s[Len(s)] = Space THEN TrimRight(SubSeq(s, 1, Len(s) - 1)) ELSE s
Trim(s) == TrimRight(TrimLeft(s))

\* length of the longest run of [\w-] tokens of s that starts at position i
RECURSIVE WordRun(_, _)
WordRun(s, i) ==
  IF i <= Len(s) /\ s[i] \in WordTokens THEN 1 + WordRun(s, i + 1) ELSE 0

RECURSIVE Concat(_)
Concat(s) == IF s = <<>> THEN "" ELSE Head(s) \o Concat(Tail(s))

\* /^#PAGEID:([\w-]+)#/ : does it match, the captured group, the match length
TagMatches(s) ==
  /\ Len(s) >= 3
  /\ s[1] = TagOpen
  /\ WordRun(s, 2) >= 1
  /\ Len(s) >= 2 + WordRun(s, 2)
  /\ s[2 + WordRun(s, 2)] = TagClose
TagGroup(s) == Concat(SubSeq(s, 2, 1 + WordRun(s, 2)))
TagLength(s) == 2 + WordRun(s, 2)

\* -------------------------------------------------------------------- dates
\* a date is <<day>> (all-day), <<day, "T", hour>> (a local date-time, as Morgen
\* holds it next to its time zone) or <<day, "T", hour, offset>> (ISO, with offset)
HasTime(date) == "T" \in Range(date)
\* date.split('T')[0]
DatePart(date) == IF date = <<>> THEN "" ELSE date[1]

\* the time zones of Morgen events and the offset luxon prints for each
Zones == {"UTC", "America/Chicago"}
ZoneOffset(zone) == IF zone = "America/Chicago" THEN "-06:00" ELSE "Z"
\* the offset written in a date-time; one that has none is read in the zone asked for
OffsetOf(date) == IF Len(date) >= 4 THEN date[4] ELSE "Z"
\* the hour in UTC of an hour at an offset
UtcHour(hour, offset) ==
  IF offset = "-06:00"
  THEN (CASE hour = "00" -> "06" [] hour = "01" -> "07" [] OTHER -> hour)
  ELSE hour

\* luxon: DateTime.fromISO(start, {zone}).toISO() keeps the zone and prints its offset
toISOInZone(start, zone) == <<start[1], "T", start[3], ZoneOffset(zone)>>
\* luxon: DateTime.fromISO(d).toUTC().toISO()
toUTCISO(date) == <<date[1], "T", UtcHour(date[3], OffsetOf(date)), "Z">>
\* getDueDatePropertyValue: a date without a time as it is, one with a time in UTC
getDueDatePropertyValue(start) == IF HasTime(start) THEN toUTCISO(start) ELSE start

\* luxon: fromISO(d, {zone:'utc'}).toUTC().toFormat("yyyy-MM-dd'T'HH:mm:ss");
\* a date without a time becomes midnight
formatToMorgenDateTime(date) ==
  IF HasTime(date)
  THEN <<date[1], "T", UtcHour(date[3], OffsetOf(date))>>
  ELSE date \o <<"T", "00">>

\* ------------------------------------------------------------------ records
Absent == <<>>
Present(side) == side # <<>>
Rec(side) == side[1]

convertNotionToUniversal(task) ==
  [ notionPageId |-> task.pageId,
    morgenEventId |-> task.eventId,
    title |-> task.title,
    description |-> task.description,
    date |-> task.dueDate,
    duration |-> "PT1H",
    lastUpdate |-> task.lastUpdate ]

convertMorgenToUniversal(event) ==
  [ notionPageId |-> event.pageId,
    morgenEventId |-> event.eventId,
    title |-> event.title,
    description |-> event.description,
    date |-> event.start,
    duration |-> event.duration,
    lastUpdate |-> event.lastUpdate ]

\* one raw Morgen event to a MorgenEvent: tag extracted and stripped
convertToMorgenEvent(ev) ==
  [ eventId |-> ev.id,
    title |-> ev.title,
    description |->
      IF TagMatches(ev.description)
      THEN SubSeq(ev.description, TagLength(ev.description) + 1, Len(ev.description))
      ELSE ev.description,
    start |-> toISOInZone(ev.start, ev.timeZone),
    duration |-> ev.duration,
    pageId |-> IF TagMatches(ev.description) THEN TagGroup(ev.description) ELSE "",
    lastUpdate |-> ev.updated ]

\* one Notion page to a Task
pageToTask(page) ==
  [ pageId |-> page.id,
    eventId |-> page.eventId,
    title |-> page.title,
    dueDate |-> getDueDatePropertyValue(page.date),
    description |-> page.description,
    lastUpdate |-> page.lastUpdate ]

\* --------------------------------------------------------------------- keys
\* slip: the title is made part of the key
generateEventKeyWithTitle(event) ==
  event.morgenEventId \o "|" \o event.notionPageId \o "|" \o event.title
generateEventKey(event) == event.morgenEventId \o "|" \o event.notionPageId

generateEventPairKey(pair) ==
  IF Present(pair.morgen) THEN generateEventKey(Rec(pair.morgen))
  ELSE IF Present(pair.notion) THEN generateEventKey(Rec(pair.notion))
  ELSE "morgen and notion did not exist in event pair!"

\* --------------------------------------------------- maps (insertion order)
\* a JavaScript object used as a map: a sequence of [key, pair] entries
MapKeys(map) == [i \in 1..Len(map) |-> map[i].key]
MapHas(map, k) == \E i \in 1..Len(map) : map[i].key = k
MapGet(map, k) == map[CHOOSE i \in 1..Len(map) : map[i].key = k].pair
\* map[k] = pair : an existing property keeps its place
MapPut(map, k, pair) ==
  IF MapHas(map, k)
  THEN [i \in 1..Len(map) |-> IF map[i].key = k THEN [key |-> k, pair |-> pair] ELSE map[i]]
  ELSE Append(map, [key |-> k, pair |-> pair])
\* delete map[k]
MapDel(map, k) == SelectSeq(map, LAMBDA e : e.key # k)

\* ------------------------------------------------------------ Pair Matcher
OnlyNotion(event) == [notion |-> <<event>>, morgen |-> Absent]
OnlyMorgen(event) == [notion |-> Absent, morgen |-> <<event>>]

\* slip: the test for a key that is already there is left out, so that the later of
\* two Notion records of one key replaces the earlier
RECURSIVE combineNotionEventsLastKept(_, _)
combineNotionEventsLastKept(notionEvents, eventMap) ==
  IF notionEvents = <<>> THEN eventMap
  ELSE LET eventPair == OnlyNotion(Head(notionEvents))
           key == generateEventPairKey(eventPair)
       IN combineNotionEventsLastKept(Tail(notionEvents), MapPut(eventMap, key, eventPair))

\* first forEach of processAndCombineEvents
RECURSIVE combineNotionEvents(_, _)
combineNotionEvents(notionEvents, eventMap) ==
  IF notionEvents = <<>> THEN eventMap
  ELSE LET eventPair == OnlyNotion(Head(notionEvents))
           key == generateEventPairKey(eventPair)
       IN combineNotionEvents(Tail(notionEvents),
            IF MapHas(eventMap, key) THEN eventMap ELSE MapPut(eventMap, key, eventPair))

\* second forEach of processAndCombineEvents
RECURSIVE combineMorgenEvents(_, _)
combineMorgenEvents(morgenEvents, eventMap) ==
  IF morgenEvents = <<>> THEN eventMap
  ELSE LET event == Head(morgenEvents)
           key == generateEventKey(event)
       IN combineMorgenEvents(Tail(morgenEvents),
            IF MapHas(eventMap, key)
            THEN MapPut(eventMap, key, [MapGet(eventMap, key) EXCEPT !.morgen = <<event>>])
            ELSE MapPut(eventMap, key, OnlyMorgen(event)))

processAndCombineEvents(notionEvents, morgenEvents, eventMap) ==
  combineMorgenEvents(morgenEvents, combineNotionEvents(notionEvents, eventMap))

\* --------------------------------------------------------- Snapshot Differ
\* slip: the descriptions are compared as they are, not trimmed
compareEventsUntrimmed(truthEvent, compareEvent) ==
  \/ truthEvent.title # compareEvent.title
  \/ truthEvent.description # compareEvent.description
  \/ DatePart(truthEvent.date) # DatePart(compareEvent.date)
  \/ /\ HasTime(truthEvent.date)
     /\ HasTime(compareEvent.date)
     /\ truthEvent.date # compareEvent.date
\* TRUE when there is a discrepancy
compareEvents(truthEvent, compareEvent) ==
  \/ truthEvent.title # compareEvent.title
  \/ Trim(truthEvent.description) # Trim(compareEvent.description)
  \/ DatePart(truthEvent.date) # DatePart(compareEvent.date)
  \/ /\ HasTime(truthEvent.date)
     /\ HasTime(compareEvent.date)
     /\ truthEvent.date # compareEvent.date

eventPairsAreEqual(pair1, pair2) ==
  IF Present(pair1.morgen) /\ Present(pair1.notion)
     /\ Present(pair2.morgen) /\ Present(pair2.notion)
  THEN /\ ~compareEvents(Rec(pair1.morgen), Rec(pair2.morgen))
       /\ ~compareEvents(Rec(pair1.notion), Rec(pair2.notion))
  ELSE FALSE

\* ---------------------------------------------------------------- Reconciler
\* the branch synchronizeEvents takes for one key of newMap
Unchanged(oldMap, newMap, key) ==
  MapHas(oldMap, key) /\ eventPairsAreEqual(MapGet(oldMap, key), MapGet(newMap, key))
Changed(oldMap, newMap, key) ==
  MapHas(oldMap, key) /\ ~eventPairsAreEqual(MapGet(oldMap, key), MapGet(newMap, key))
Appeared(oldMap, key) == ~MapHas(oldMap, key)
\* slip: the test that the Notion side is missing is left out
NeedsNotionTaskAnyMorgen(pair) == Present(pair.morgen)
NeedsNotionTask(pair) == Present(pair.morgen) /\ ~Present(pair.notion)
NeedsMorgenEvent(pair) == Present(pair.notion) /\ ~Present(pair.morgen)

\* slip: ">=" for ">", so that equal timestamps favour the Morgen side
ResolveDirectionTieToMorgen(eventPair) ==
  IF Present(eventPair.morgen) /\ Present(eventPair.notion)
  THEN IF ~LexGreater(Rec(eventPair.notion).lastUpdate, Rec(eventPair.morgen).lastUpdate)
       THEN "updateNotionTask"
       ELSE "updateMorgenEvent"
  ELSE "none"
\* resolveAndUpdateDiscrepancies: the update it issues, "none" when a side is missing
ResolveDirection(eventPair) ==
  IF Present(eventPair.morgen) /\ Present(eventPair.notion)
  THEN IF LexGreater(Rec(eventPair.morgen).lastUpdate, Rec(eventPair.notion).lastUpdate)
       THEN "updateNotionTask"
       ELSE "updateMorgenEvent"
  ELSE "none"

\* slip: the test of the baseline's Morgen side is left out
ScanDeletesNotionAnyBaseline(oldMap, newMap, key) ==
  /\ MapHas(newMap, key)
  /\ Present(MapGet(newMap, key).notion) /\ ~Present(MapGet(newMap, key).morgen)
  /\ Rec(MapGet(newMap, key).notion).notionPageId # ""
\* slip: the test of the baseline's Morgen side is negated
ScanDeletesNotionNegated(oldMap, newMap, key) ==
  /\ MapHas(newMap, key)
  /\ Present(MapGet(newMap, key).notion) /\ ~Present(MapGet(newMap, key).morgen)
  /\ ~Present(MapGet(oldMap, key).morgen)
  /\ Rec(MapGet(newMap, key).notion).notionPageId # ""
\* the deletion scan's decision for one key of oldMap
ScanDeletesNotion(oldMap, newMap, key) ==
  /\ MapHas(newMap, key)
  /\ Present(MapGet(newMap, key).notion) /\ ~Present(MapGet(newMap, key).morgen)
  /\ Present(MapGet(oldMap, key).morgen)
  /\ Rec(MapGet(newMap, key).notion).notionPageId # ""
ScanDeletesMorgen(oldMap, newMap, key) ==
  /\ MapHas(newMap, key)
  /\ Present(MapGet(newMap, key).morgen) /\ ~Present(MapGet(newMap, key).notion)
  /\ Present(MapGet(oldMap, key).notion)

\* ------------------------------------------------- descriptions sent to Morgen
\* slip: the text of the truth record is sent as it is, without the tag
idPlusDescriptionUntagged(event) == event.description
\* updateMorgenEvent and createMorgenEventFromTask: tag directly before the text
idPlusDescription(event) ==
  IF event.notionPageId # ""
  THEN <<TagOpen, event.notionPageId, TagClose>> \o event.description
  ELSE event.description
\* updateMorgenEventWithNotionPageId: tag, a blank, the text
backLinkDescription(notionPageId, currentDescription) ==
  IF TagMatches(currentDescription) THEN currentDescription
  ELSE <<TagOpen, notionPageId, TagClose, Space>> \o currentDescription

\* -------------------------------------------------------------------- state
VARIABLES
  notionDb,              \* store A: the unarchived pages of the Notion database
  morgenDb,              \* store B: the events of the Morgen calendar
  nextPage,              \* page identifiers handed out so far
  nextEvent,             \* event identifiers handed out so far
  clock,                 \* wall clock
  edits,                 \* upstream actions so far
  failures,              \* failed external calls so far
  oldUniversalEventMap,  \* the baseline
  run,                   \* the invocations of main, one per slot
  createCalls,           \* create calls issued so far, per originating record
  createFailed,          \* keys of the baseline whose create call failed in its pass
  lastFailed,            \* the update and delete calls that failed in that pass
  lastCreated,           \* the pairs that pass completed: create and back-link done
  lastResolved,          \* the keys that pass resolved by an update that succeeded
  args,                  \* a function under study: its name and its inputs
  result                 \* what it returned, once applied

vars == <<notionDb, morgenDb, nextPage, nextEvent, clock, edits, failures,
          oldUniversalEventMap, run, createCalls, createFailed, lastFailed,
          lastCreated, lastResolved, args, result>>

\* every write of a store advances the clock: the stamp of the next write, and
\* whether the clock has room for it
Now == clock + 1
CanWrite == clock < MaxTime

NotionHas(pageId) == \E p \in notionDb : p.id = pageId
MorgenHas(eventId) == \E e \in morgenDb : e.id = eventId

\* notion.databases.query: the pages, here in the order of their creation
queryNotionDatabase ==
  LET ids == SelectSeq(PageIdSeq, NotionHas)
  IN [i \in 1..Len(ids) |-> CHOOSE p \in notionDb : p.id = ids[i]]
\* GET /v3/events/list
listMorgenEvents ==
  LET ids == SelectSeq(EventIdSeq, MorgenHas)
  IN [i \in 1..Len(ids) |-> CHOOSE e \in morgenDb : e.id = ids[i]]

getTasksFromNotionDatabase ==
  [i \in 1..Len(queryNotionDatabase) |-> pageToTask(queryNotionDatabase[i])]
convertToMorgenEvents(events) ==
  [i \in 1..Len(events) |-> convertToMorgenEvent(events[i])]
\* a failed request is caught and yields no events
getEventsFromMorgenAPI(ok) ==
  IF ok THEN convertToMorgenEvents(listMorgenEvents) ELSE <<>>

\* ------------------------------------------- effects of the external calls
\* notion.pages.update with Name, Description and Due date
NotionUpdated(pageId, truthEvent, now) ==
  { IF p.id = pageId
    THEN [p EXCEPT !.title = truthEvent.title,
                   !.description = truthEvent.description,
                   !.date = truthEvent.date,
                   !.lastUpdate = IsoTime(now)]
    ELSE p : p \in notionDb }
\* POST /v3/events/update with title, description, start and duration
MorgenUpdated(eventId, truthEvent, now) ==
  { IF e.id = eventId
    THEN [e EXCEPT !.title = truthEvent.title,
                   !.description = idPlusDescription(truthEvent),
                   !.start = formatToMorgenDateTime(truthEvent.date),
                   !.timeZone = "UTC",
                   !.duration = truthEvent.duration,
                   !.updated = IsoTime(now)]
    ELSE e : e \in morgenDb }
\* notion.pages.update with archived: true
NotionArchived(pageId) == {p \in notionDb : p.id # pageId}
\* POST /v3/events/delete
MorgenDeleted(eventId) == {e \in morgenDb : e.id # eventId}
\* notion.pages.create
NotionCreated(pageId, morgen, now) ==
  notionDb \cup {[ id |-> pageId,
                   eventId |-> morgen.morgenEventId,
                   title |-> morgen.title,
                   description |-> morgen.description,
                   date |-> morgen.date,
                   lastUpdate |-> IsoTime(now) ]}
\* POST /v3/events/create
MorgenCreated(eventId, task, now) ==
  morgenDb \cup {[ id |-> eventId,
                   title |-> task.title,
                   description |-> idPlusDescription(task),
                   start |-> formatToMorgenDateTime(task.date),
                   timeZone |-> "UTC",
                   duration |-> task.duration,
                   updated |-> IsoTime(now) ]}
\* updateNotionPageWithMorgenEventId
NotionLinked(db, pageId, eventId, now) ==
  { IF p.id = pageId
    THEN [p EXCEPT !.eventId = eventId, !.lastUpdate = IsoTime(now)]
    ELSE p : p \in db }
\* updateMorgenEventWithNotionPageId
MorgenLinked(db, eventId, pageId, currentDescription, now) ==
  { IF e.id = eventId
    THEN [e EXCEPT !.description = backLinkDescription(pageId, currentDescription),
                   !.updated = IsoTime(now)]
    ELSE e : e \in db }

\* one entry of the log of external calls of a pass
\* key: the key being handled; id: the record the call is about (for a create, the
\* originating record); title: the title sent
Call(op, key, id, title, ok) ==
  [op |-> op, key |-> key, id |-> id, title |-> title, ok |-> ok]

\* a pair completed by a create call and its back-link write, with the number of
\* upstream actions there had been by then
Made(pageId, eventId) == [page |-> pageId, event |-> eventId, edits |-> edits]
\* a key resolved by an update call that succeeded, with the identifiers of the pair's
\* two records and the same number
Resolved(key, pair) ==
  [ key |-> key,
    page |-> Rec(pair.notion).notionPageId,
    event |-> Rec(pair.morgen).morgenEventId,
    edits |-> edits ]

\* ---------------------------------------------------------------- main
Off ==
  [ pc |-> "off", first |-> FALSE, morgenOk |-> TRUE, tasks |-> <<>>,
    oldMap |-> <<>>, newMap |-> <<>>, newMap0 |-> <<>>,
    todo |-> <<>>, scan |-> <<>>, calls |-> <<>>, made |-> {},
    resolved |-> {}, before |-> {}, behind |-> FALSE ]

InFlight(i) == run[i].pc # "off"
\* the invocation has built its map from the two fetches and not yet returned
HasSnapshot(r) == r.pc \in {"loop", "scan"}
NoneInFlight == \A i \in Slots : ~InFlight(i)

\* the stores when the process starts: empty, or one linked pair
LinkedPage(title, stamp) ==
  [ id |-> PageIdSeq[1], eventId |-> EventIdSeq[1], title |-> title,
    description |-> <<"d">>, date |-> <<"D1">>, lastUpdate |-> IsoTime(stamp) ]
LinkedEvent(title, stamp) ==
  [ id |-> EventIdSeq[1], title |-> title,
    description |-> <<TagOpen, PageIdSeq[1], TagClose, "d">>,
    start |-> <<"D1", "T", "00">>, timeZone |-> "UTC", duration |-> "PT1H",
    updated |-> IsoTime(stamp) ]

InitStores ==
  \/ /\ notionDb = {} /\ morgenDb = {}
     /\ nextPage = 0 /\ nextEvent = 0 /\ clock = 0
  \/ \E t \in Titles, sa \in 0..1, sb \in 0..1 :
       /\ notionDb = {LinkedPage("X", sa)}
       /\ morgenDb = {LinkedEvent(t, sb)}
       /\ nextPage = 1 /\ nextEvent = 1 /\ clock = 1

\* line 119-121: the baseline is empty and main is called once
Started ==
  /\ edits = 0
  /\ oldUniversalEventMap = <<>>
  /\ run = [i \in Slots |-> IF i = 1 THEN [Off EXCEPT !.pc = "fetchA", !.first = TRUE] ELSE Off]
  /\ createCalls = [id \in Range(PageIdSeq) \cup Range(EventIdSeq) |-> 0]
  /\ createFailed = {}
  /\ lastFailed = {}
  /\ lastCreated = {}
  /\ lastResolved = {}
  /\ args = <<>>
  /\ result = <<>>

Init == InitStores /\ failures = 0 /\ Started

\* setInterval(main, 40000): the timer calls main in a free slot
TimerFires(i) ==
  /\ ~InFlight(i)
  /\ \A j \in Slots : j < i => InFlight(j)
  /\ run' = [run EXCEPT ![i] = [Off EXCEPT !.pc = "fetchA"]]
  /\ UNCHANGED <<notionDb, morgenDb, nextPage, nextEvent, clock, edits, failures,
                 oldUniversalEventMap, createCalls, createFailed,
                 lastFailed, lastCreated, lastResolved, args, result>>

\* line 134: await getTasksFromNotionDatabase, which has no try/catch: when
\* notion.databases.query rejects, so does main
FetchNotion(i) ==
  /\ run[i].pc = "fetchA"
  /\ \E ok \in BOOLEAN :
       /\ ~ok => failures < MaxFail
       /\ failures' = IF ok THEN failures ELSE failures + 1
       /\ run' = IF ok
                 THEN [run EXCEPT ![i].pc = "fetchB",
                                  ![i].tasks = [k \in 1..Len(getTasksFromNotionDatabase) |->
                                                  convertNotionToUniversal(getTasksFromNotionDatabase[k])]]
                 ELSE [run EXCEPT ![i].pc = "rejected"]
  /\ UNCHANGED <<notionDb, morgenDb, nextPage, nextEvent, clock, edits,
                 oldUniversalEventMap, createCalls, createFailed,
                 lastFailed, lastCreated, lastResolved, args, result>>

\* lines 120-121: nothing handles the rejection of main. A runtime that only warns
\* about it drops the invocation and the timer goes on; a runtime that ends the
\* process on it never takes this step, and the invocation stays where it is.
MainRejected(i) ==
  /\ run[i].pc = "rejected"
  /\ run' = [run EXCEPT ![i] = Off]
  /\ UNCHANGED <<notionDb, morgenDb, nextPage, nextEvent, clock, edits, failures,
                 oldUniversalEventMap, createCalls, createFailed,
                 lastFailed, lastCreated, lastResolved, args, result>>

\* the keys of oldMap for which the deletion scan issues a call
ScanKeys(oldMap, newMap) ==
  SelectSeq(MapKeys(oldMap),
            LAMBDA k : ScanDeletesNotion(oldMap, newMap, k) \/ ScanDeletesMorgen(oldMap, newMap, k))

\* lines 135-142: await getEventsFromMorgenAPI, build newMap, enter synchronizeEvents
FetchMorgen(i) ==
  /\ run[i].pc = "fetchB"
  /\ \E ok \in BOOLEAN :
       /\ ~ok => failures < MaxFail
       /\ failures' = IF ok THEN failures ELSE failures + 1
       /\ LET events == getEventsFromMorgenAPI(ok)
              morgenUniversalEvents ==
                [k \in 1..Len(events) |-> convertMorgenToUniversal(events[k])]
              newMap == processAndCombineEvents(run[i].tasks, morgenUniversalEvents, <<>>)
          IN run' = [run EXCEPT ![i].pc = "loop",
                                ![i].tasks = <<>>,
                                ![i].morgenOk = ok,
                                ![i].before = {j \in Slots \ {i} : HasSnapshot(run[j])},
                                ![i].oldMap = oldUniversalEventMap,
                                ![i].newMap = newMap,
                                ![i].newMap0 = newMap,
                                ![i].todo = MapKeys(newMap)]
  /\ UNCHANGED <<notionDb, morgenDb, nextPage, nextEvent, clock, edits,
                 oldUniversalEventMap, createCalls, createFailed,
                 lastFailed, lastCreated, lastResolved, args, result>>

\* ------------------------------------------------------- synchronizeEvents
\* the key and pair of the iteration of "for (const key in newMap)" that is due
AtLoop(i) == run[i].pc = "loop" /\ run[i].todo # <<>>
CurKey(i) == Head(run[i].todo)
CurPair(i) == MapGet(run[i].newMap, CurKey(i))

\* cost of a call's outcome in failures: a call on a record that is gone always fails
Cost(ok, possible) == IF ~ok /\ possible THEN 1 ELSE 0

\* after cases 1-3 of an iteration: the deletion scan (lines 217-236), then the next key
ToScan(r, newMap, calls) ==
  [r EXCEPT !.newMap = newMap,
            !.calls = calls,
            !.todo = Tail(r.todo),
            !.scan = ScanKeys(r.oldMap, newMap),
            !.pc = IF ScanKeys(r.oldMap, newMap) = <<>> THEN "loop" ELSE "scan"]

\* case 1 (lines 196-199): continue, which also skips the deletion scan
SyncUnchanged(i) ==
  /\ AtLoop(i)
  /\ Unchanged(run[i].oldMap, run[i].newMap, CurKey(i))
  /\ run' = [run EXCEPT ![i].todo = Tail(run[i].todo)]
  /\ UNCHANGED <<notionDb, morgenDb, nextPage, nextEvent, clock, edits, failures,
                 oldUniversalEventMap, createCalls, createFailed,
                 lastFailed, lastCreated, lastResolved, args, result>>

\* case 2 (lines 201-204) with resolveAndUpdateDiscrepancies, updateNotionTask
\* and updateMorgenEvent
SyncResolve(i) ==
  /\ AtLoop(i)
  /\ Changed(run[i].oldMap, run[i].newMap, CurKey(i))
  /\ LET pair == CurPair(i)
         dir == ResolveDirection(pair)
     IN CASE dir = "updateNotionTask" ->
               LET truth == Rec(pair.morgen)
                   target == Rec(pair.notion).notionPageId
               IN \E ok \in BOOLEAN :
                    /\ ok => NotionHas(target) /\ CanWrite
                    /\ failures + Cost(ok, NotionHas(target)) <= MaxFail
                    /\ failures' = failures + Cost(ok, NotionHas(target))
                    /\ notionDb' = IF ok THEN NotionUpdated(target, truth, Now) ELSE notionDb
                    /\ clock' = IF ok THEN Now ELSE clock
                    /\ morgenDb' = morgenDb
                    /\ run' = [run EXCEPT ![i] =
                                 [ToScan(run[i], run[i].newMap,
                                    Append(run[i].calls, Call("UpdateA", CurKey(i), target, truth.title, ok)))
                                  EXCEPT !.resolved = @ \cup (IF ok THEN {Resolved(CurKey(i), pair)} ELSE {})]]
          [] dir = "updateMorgenEvent" ->
               LET truth == Rec(pair.notion)
                   target == Rec(pair.morgen).morgenEventId
               IN \E ok \in BOOLEAN :
                    /\ ok => MorgenHas(target) /\ CanWrite
                    /\ failures + Cost(ok, MorgenHas(target)) <= MaxFail
                    /\ failures' = failures + Cost(ok, MorgenHas(target))
                    /\ morgenDb' = IF ok THEN MorgenUpdated(target, truth, Now) ELSE morgenDb
                    /\ clock' = IF ok THEN Now ELSE clock
                    /\ notionDb' = notionDb
                    /\ run' = [run EXCEPT ![i] =
                                 [ToScan(run[i], run[i].newMap,
                                    Append(run[i].calls, Call("UpdateB", CurKey(i), target, truth.title, ok)))
                                  EXCEPT !.resolved = @ \cup (IF ok THEN {Resolved(CurKey(i), pair)} ELSE {})]]
          [] OTHER ->
               /\ run' = [run EXCEPT ![i] = ToScan(run[i], run[i].newMap, run[i].calls)]
               /\ UNCHANGED <<notionDb, morgenDb, clock, failures>>
  /\ UNCHANGED <<nextPage, nextEvent, edits, oldUniversalEventMap, createCalls, createFailed,
                 lastFailed, lastCreated, lastResolved, args, result>>

\* slip: the Morgen-only entry is deleted before the create call is made
createNotionTaskMapDeleteFirst(newMap, onlyMorgenKey, eventPair, created) ==
  IF created
  THEN MapPut(MapDel(newMap, onlyMorgenKey), generateEventPairKey(eventPair), eventPair)
  ELSE MapDel(newMap, onlyMorgenKey)
\* lines 534-551: what createNotionTaskFromEvent makes of newMap; the catch of a
\* failed create leaves it as it is
createNotionTaskMap(newMap, onlyMorgenKey, eventPair, created) ==
  IF created
  THEN MapPut(MapDel(newMap, onlyMorgenKey), generateEventPairKey(eventPair), eventPair)
  ELSE newMap

\* case 3, first branch (lines 207-209) with createNotionTaskFromEvent
SyncCreateNotion(i) ==
  /\ AtLoop(i)
  /\ Appeared(run[i].oldMap, CurKey(i))
  /\ NeedsNotionTask(CurPair(i))
  /\ LET eventPair == CurPair(i)
         morgen == Rec(eventPair.morgen)
         pageId == PageIdSeq[nextPage + 1]
         onlyMorgenKey == generateEventPairKey(eventPair)
         linked == [morgen EXCEPT !.notionPageId = pageId]
     IN \E created \in BOOLEAN, linkOk \in BOOLEAN :
          /\ created => nextPage < MaxPages /\ CanWrite
          /\ ~created => ~linkOk /\ failures < MaxFail
          /\ linkOk => MorgenHas(morgen.morgenEventId)
          /\ failures' = IF created
                         THEN failures + Cost(linkOk, MorgenHas(morgen.morgenEventId))
                         ELSE failures + 1
          /\ failures' <= MaxFail
          /\ createCalls' = [createCalls EXCEPT ![morgen.morgenEventId] = @ + 1]
          /\ nextPage' = IF created THEN nextPage + 1 ELSE nextPage
          /\ notionDb' = IF created THEN NotionCreated(pageId, morgen, Now) ELSE notionDb
          /\ morgenDb' = IF linkOk
                         THEN MorgenLinked(morgenDb, morgen.morgenEventId, pageId,
                                           morgen.description, Now)
                         ELSE morgenDb
          /\ clock' = IF created THEN Now ELSE clock
          /\ LET matched ==
                   [ notion |-> << [ notionPageId |-> pageId,
                                     morgenEventId |-> morgen.morgenEventId,
                                     title |-> morgen.title,
                                     description |-> morgen.description,
                                     date |-> morgen.date,
                                     duration |-> morgen.duration,
                                     lastUpdate |-> IsoTime(Now) ] >>,
                     morgen |-> <<linked>> ]
                 newMap == createNotionTaskMap(run[i].newMap, onlyMorgenKey, matched, created)
                 calls ==
                   Append(run[i].calls, Call("CreateA", CurKey(i), morgen.morgenEventId, morgen.title, created))
                   \o (IF created
                       THEN <<Call("LinkB", CurKey(i), morgen.morgenEventId, morgen.title, linkOk)>>
                       ELSE <<>>)
                 made ==
                   IF created /\ linkOk
                   THEN {Made(pageId, morgen.morgenEventId)}
                   ELSE {}
             IN run' = [run EXCEPT ![i] =
                          [ToScan(run[i], newMap, calls) EXCEPT !.made = @ \cup made]]
  /\ UNCHANGED <<nextEvent, edits, oldUniversalEventMap, createFailed,
                 lastFailed, lastCreated, lastResolved, args, result>>

\* case 3, second branch (lines 210-211) with createMorgenEventFromTask
SyncCreateMorgen(i) ==
  /\ AtLoop(i)
  /\ Appeared(run[i].oldMap, CurKey(i))
  /\ NeedsMorgenEvent(CurPair(i))
  /\ LET task == Rec(CurPair(i).notion)
         eventId == EventIdSeq[nextEvent + 1]
         linked == [task EXCEPT !.morgenEventId = eventId]
         eventPair == [notion |-> <<linked>>, morgen |-> <<linked>>]
         \* line 595: the bookkeeping is done only for a task with a page id
         books == task.notionPageId # ""
     IN \E created \in BOOLEAN, linkOk \in BOOLEAN :
          /\ created => nextEvent < MaxEvents /\ CanWrite
          /\ ~created => ~linkOk /\ failures < MaxFail
          /\ linkOk => books /\ NotionHas(task.notionPageId)
          /\ failures' = IF created
                         THEN failures + Cost(linkOk, books /\ NotionHas(task.notionPageId))
                         ELSE failures + 1
          /\ failures' <= MaxFail
          /\ createCalls' = [createCalls EXCEPT ![task.notionPageId] = @ + 1]
          /\ nextEvent' = IF created THEN nextEvent + 1 ELSE nextEvent
          /\ morgenDb' = IF created THEN MorgenCreated(eventId, task, Now) ELSE morgenDb
          /\ notionDb' = IF linkOk
                         THEN NotionLinked(notionDb, task.notionPageId, eventId, Now)
                         ELSE notionDb
          /\ clock' = IF created THEN Now ELSE clock
          /\ LET newMap ==
                   IF created /\ books
                   THEN MapPut(MapPut(run[i].newMap, CurKey(i),
                                      [CurPair(i) EXCEPT !.notion = <<linked>>]),
                               generateEventPairKey(eventPair), eventPair)
                   ELSE run[i].newMap
                 calls ==
                   Append(run[i].calls, Call("CreateB", CurKey(i), task.notionPageId, task.title, created))
                   \o (IF created /\ books
                       THEN <<Call("LinkA", CurKey(i), task.notionPageId, task.title, linkOk)>>
                       ELSE <<>>)
                 made ==
                   IF created /\ linkOk
                   THEN {Made(task.notionPageId, eventId)}
                   ELSE {}
             IN run' = [run EXCEPT ![i] =
                          [ToScan(run[i], newMap, calls) EXCEPT !.made = @ \cup made]]
  /\ UNCHANGED <<nextPage, edits, oldUniversalEventMap, createFailed,
                 lastFailed, lastCreated, lastResolved, args, result>>

\* case 3, else branch (lines 212-214): the pair is new and has both sides
SyncFirstRun(i) ==
  /\ AtLoop(i)
  /\ Appeared(run[i].oldMap, CurKey(i))
  /\ ~NeedsNotionTask(CurPair(i))
  /\ ~NeedsMorgenEvent(CurPair(i))
  /\ run' = [run EXCEPT ![i] = ToScan(run[i], run[i].newMap, run[i].calls)]
  /\ UNCHANGED <<notionDb, morgenDb, nextPage, nextEvent, clock, edits, failures,
                 oldUniversalEventMap, createCalls, createFailed,
                 lastFailed, lastCreated, lastResolved, args, result>>

\* case 4 (lines 217-236): one key of oldMap for which the scan issues a delete,
\* with deleteNotionTask and deleteMorgenEvent
Scan(i) ==
  /\ run[i].pc = "scan"
  /\ LET key == Head(run[i].scan)
         newEventPair == MapGet(run[i].newMap, key)
         rest == Tail(run[i].scan)
         deletesNotion == ScanDeletesNotion(run[i].oldMap, run[i].newMap, key)
         target == IF deletesNotion THEN Rec(newEventPair.notion).notionPageId
                   ELSE Rec(newEventPair.morgen).morgenEventId
         title == IF deletesNotion THEN Rec(newEventPair.notion).title
                  ELSE Rec(newEventPair.morgen).title
         possible == IF deletesNotion THEN NotionHas(target) ELSE MorgenHas(target)
     IN \E ok \in BOOLEAN :
          /\ ok => possible
          /\ failures + Cost(ok, possible) <= MaxFail
          /\ failures' = failures + Cost(ok, possible)
          /\ notionDb' = IF ok /\ deletesNotion THEN NotionArchived(target) ELSE notionDb
          /\ morgenDb' = IF ok /\ ~deletesNotion THEN MorgenDeleted(target) ELSE morgenDb
          /\ run' = [run EXCEPT
               ![i].calls = Append(@, Call(IF deletesNotion THEN "DeleteA" ELSE "DeleteB",
                                            key, target, title, ok)),
               ![i].scan = rest,
               ![i].pc = IF rest = <<>> THEN "loop" ELSE "scan"]
  /\ UNCHANGED <<nextPage, nextEvent, clock, edits, oldUniversalEventMap, createCalls, createFailed,
                 lastFailed, lastCreated, lastResolved, args, result>>

\* slip: the error of a failed call reaches main, which then skips line 144
NewBaselineUnlessFailed(r) ==
  IF \E c \in Range(r.calls) : ~c.ok THEN r.oldMap ELSE r.newMap
\* line 144: the map that becomes the baseline
NewBaseline(r) == r.newMap

\* line 144: the pass is over and its map becomes the baseline
EndPass(i) ==
  /\ run[i].pc = "loop"
  /\ run[i].todo = <<>>
  /\ oldUniversalEventMap' = NewBaseline(run[i])
  /\ createFailed' = {c.key : c \in {d \in Range(run[i].calls) : d.op \in {"CreateA", "CreateB"} /\ ~d.ok}}
  /\ lastFailed' = {[op |-> c.op, key |-> c.key, id |-> c.id] :
                      c \in {d \in Range(run[i].calls) :
                               d.op \in {"UpdateA", "UpdateB", "DeleteA", "DeleteB"} /\ ~d.ok}}
  /\ lastCreated' = run[i].made
  /\ lastResolved' = run[i].resolved
  /\ run' = [k \in Slots |->
               IF k = i THEN Off
               ELSE IF HasSnapshot(run[k])
               THEN [run[k] EXCEPT !.behind = i \notin run[k].before,
                                   !.before = @ \ {i}]
               ELSE run[k]]
  /\ UNCHANGED <<notionDb, morgenDb, nextPage, nextEvent, clock, edits, failures,
                 createCalls,
                 args, result>>

\* ----------------------------------------------------- upstream (user) edits
UserCreatesTask ==
  /\ edits < MaxEdits
  /\ nextPage < MaxPages
  /\ CanWrite
  /\ notionDb' = notionDb \cup
       {[ id |-> PageIdSeq[nextPage + 1], eventId |-> "", title |-> "X",
          description |-> <<"d">>, date |-> <<"D1">>, lastUpdate |-> IsoTime(Now) ]}
  /\ clock' = Now
  /\ nextPage' = nextPage + 1
  /\ edits' = edits + 1
  /\ UNCHANGED <<morgenDb, nextEvent, failures, oldUniversalEventMap, run, createCalls, createFailed,
                 lastFailed, lastCreated, lastResolved, args, result>>

UserCreatesEvent ==
  /\ edits < MaxEdits
  /\ nextEvent < MaxEvents
  /\ CanWrite
  /\ \E zone \in Zones :
       morgenDb' = morgenDb \cup
         {[ id |-> EventIdSeq[nextEvent + 1], title |-> "X", description |-> <<"d">>,
            start |-> <<"D1", "T", "00">>, timeZone |-> zone, duration |-> "PT1H",
            updated |-> IsoTime(Now) ]}
  /\ clock' = Now
  /\ nextEvent' = nextEvent + 1
  /\ edits' = edits + 1
  /\ UNCHANGED <<notionDb, nextPage, failures, oldUniversalEventMap, run, createCalls, createFailed,
                 lastFailed, lastCreated, lastResolved, args, result>>

UserRetitlesTask ==
  /\ edits < MaxEdits
  /\ CanWrite
  /\ \E p \in notionDb, t \in Titles :
       /\ t # p.title
       /\ notionDb' = (notionDb \ {p}) \cup {[p EXCEPT !.title = t, !.lastUpdate = IsoTime(Now)]}
  /\ clock' = Now
  /\ edits' = edits + 1
  /\ UNCHANGED <<morgenDb, nextPage, nextEvent, failures, oldUniversalEventMap, run,
                 createCalls, createFailed,
                 lastFailed, lastCreated, lastResolved, args, result>>

UserRetitlesEvent ==
  /\ edits < MaxEdits
  /\ CanWrite
  /\ \E e \in morgenDb, t \in Titles :
       /\ t # e.title
       /\ morgenDb' = (morgenDb \ {e}) \cup {[e EXCEPT !.title = t, !.updated = IsoTime(Now)]}
  /\ clock' = Now
  /\ edits' = edits + 1
  /\ UNCHANGED <<notionDb, nextPage, nextEvent, failures, oldUniversalEventMap, run,
                 createCalls, createFailed,
                 lastFailed, lastCreated, lastResolved, args, result>>

UserDeletesTask ==
  /\ edits < MaxEdits
  /\ \E p \in notionDb : notionDb' = notionDb \ {p}
  /\ edits' = edits + 1
  /\ UNCHANGED <<morgenDb, nextPage, nextEvent, clock, failures, oldUniversalEventMap, run,
                 createCalls, createFailed,
                 lastFailed, lastCreated, lastResolved, args, result>>

UserDeletesEvent ==
  /\ edits < MaxEdits
  /\ \E e \in morgenDb : morgenDb' = morgenDb \ {e}
  /\ edits' = edits + 1
  /\ UNCHANGED <<notionDb, nextPage, nextEvent, clock, failures, oldUniversalEventMap, run,
                 createCalls, createFailed,
                 lastFailed, lastCreated, lastResolved, args, result>>

User ==
  \/ UserCreatesTask
  \/ UserCreatesEvent
  \/ UserRetitlesTask
  \/ UserRetitlesEvent
  \/ UserDeletesTask
  \/ UserDeletesEvent

\* one step of an invocation of main after its start
Pass(i) ==
  \/ FetchNotion(i)
  \/ MainRejected(i)
  \/ FetchMorgen(i)
  \/ SyncUnchanged(i)
  \/ SyncResolve(i)
  \/ SyncCreateNotion(i)
  \/ SyncCreateMorgen(i)
  \/ SyncFirstRun(i)
  \/ Scan(i)
  \/ EndPass(i)

\* every pass ends before the timer fires again
TimerFiresIdle == NoneInFlight /\ TimerFires(1)

Next ==
  \/ User
  \/ TimerFiresIdle
  \/ \E i \in Slots : Pass(i)

Spec == Init /\ [][Next]_vars

\* the timer as the code sets it: it fires whether or not a pass is in flight
TimerFiresAnyway == \E i \in Slots : TimerFires(i)

\* the passes alone: nothing is edited upstream while they run
NextOverlap ==
  \/ TimerFiresAnyway
  \/ \E i \in Slots : Pass(i)

\* the process starts on one Morgen event that has no page yet, and at most one
\* external call fails
InitOverlap ==
  /\ notionDb = {}
  /\ morgenDb = {[ id |-> EventIdSeq[1], title |-> "X", description |-> <<"d">>,
                   start |-> <<"D1", "T", "00">>, timeZone |-> "UTC", duration |-> "PT1H",
                   updated |-> IsoTime(0) ]}
  /\ nextPage = 0 /\ nextEvent = 1 /\ clock = 0
  /\ failures = MaxFail - 1
  /\ Started

SpecOverlap == InitOverlap /\ [][NextOverlap]_vars

\* ------------------------------------------- the pure functions, on their own
\* records that differ in what compareEvents reads and in what it does not read
CompareRecords ==
  [ notionPageId : {"P1", "P2"},
    morgenEventId : {"E1"},
    title : Titles,
    description : {<<"d">>, <<Space, "d", Space>>, <<"e">>},
    date : {<<"D1">>, <<"D1", "T", "00">>, <<"D1", "T", "01">>, <<"D2">>},
    duration : {"PT1H", "PT2H"},
    lastUpdate : {IsoTime(0), IsoTime(1)} ]
\* records that differ in their identifiers and in their content
KeyRecords ==
  [ notionPageId : {"", "P1", "P2"},
    morgenEventId : {"", "E1", "E2"},
    title : Titles,
    description : {<<"d">>},
    date : {<<"D1">>, <<"D2", "T", "00">>},
    duration : {"PT1H"},
    lastUpdate : {IsoTime(0), IsoTime(1)} ]
\* records of two keys, two titles each, and the sequences of them
CombineRecords ==
  { r \in KeyRecords :
      /\ <<r.morgenEventId, r.notionPageId>> \in {<<"E1", "P1">>, <<"", "P1">>}
      /\ r.date = <<"D1">> /\ r.lastUpdate = IsoTime(0) }
SeqsUpTo(S, n) == UNION {[1..m -> S] : m \in 0..n}
\* pairs with either side missing or present
PairSides == {Absent} \cup {<<r>> : r \in {c \in CombineRecords : c.morgenEventId = "E1"}}
Pairs == {p \in [notion : PairSides, morgen : PairSides] : Present(p.notion) \/ Present(p.morgen)}
\* descriptions as the user wrote them
PlainDescriptions == SeqsUpTo({"d", Space}, MaxLen)
TagWriters == {"updateMorgenEventWithNotionPageId", "createMorgenEventFromTask", "updateMorgenEvent"}

\* the name of a function and the inputs it is applied to
FnInputs(name) ==
  CASE name = "eventPairsAreEqual" -> {<<name, p, q>> : p \in Pairs, q \in Pairs}
    [] name = "tag" ->
         {<<name, w, id, d>> : w \in TagWriters, id \in PageIds, d \in PlainDescriptions}
    [] name = "processAndCombineEvents" ->
         {<<name, a, b>> : a \in SeqsUpTo(CombineRecords, MaxLen),
                           b \in SeqsUpTo(CombineRecords, MaxLen)}
    [] name = "processAndCombineEventsTwice" ->
         {<<name, a, b>> : a \in SeqsUpTo(CombineRecords, MaxLen),
                           b \in SeqsUpTo(CombineRecords, MaxLen)}
    [] name = "compareEvents" -> {<<name, r, t>> : r \in CompareRecords, t \in CompareRecords}
    [] name = "generateEventKey" -> {<<name, r, t>> : r \in KeyRecords, t \in KeyRecords}
FnNames ==
  {"eventPairsAreEqual", "tag", "processAndCombineEvents", "processAndCombineEventsTwice",
   "compareEvents", "generateEventKey"}

\* no pass runs: the stores are empty and main is not called
Idle ==
  /\ notionDb = {} /\ morgenDb = {}
  /\ nextPage = 0 /\ nextEvent = 0 /\ clock = 0
  /\ edits = 0 /\ failures = 0
  /\ oldUniversalEventMap = <<>>
  /\ run = [i \in Slots |-> Off]
  /\ createCalls = [id \in Range(PageIdSeq) \cup Range(EventIdSeq) |-> 0]
  /\ createFailed = {} /\ lastFailed = {} /\ lastCreated = {} /\ lastResolved = {}
InitFn == Idle /\ result = <<>> /\ \E name \in FnNames : args \in FnInputs(name)

Applying(name) == args[1] = name /\ result = <<>>
Returns(value) ==
  /\ result' = <<value>>
  /\ UNCHANGED <<notionDb, morgenDb, nextPage, nextEvent, clock, edits, failures,
                 oldUniversalEventMap, run, createCalls, createFailed, lastFailed,
                 lastCreated, lastResolved, args>>

ApplyPairsAreEqual ==
  Applying("eventPairsAreEqual") /\ Returns(eventPairsAreEqual(args[2], args[3]))

\* the description one of the three writers sends for page id args[3] and text
\* args[4], and what the normalizer makes of the event that carries it
WrittenDescription(writer, id, d) ==
  IF writer = "updateMorgenEventWithNotionPageId"
  THEN backLinkDescription(id, d)
  ELSE idPlusDescription([notionPageId |-> id, description |-> d])
ApplyTagRoundTrip ==
  /\ Applying("tag")
  /\ Returns(convertToMorgenEvent(
       [ id |-> "E1", title |-> "X",
         description |-> WrittenDescription(args[2], args[3], args[4]),
         start |-> <<"D1", "T", "00">>, timeZone |-> "UTC", duration |-> "PT1H",
         updated |-> IsoTime(0) ]))

ApplyCombine ==
  /\ Applying("processAndCombineEvents")
  /\ Returns(processAndCombineEvents(args[2], args[3], <<>>))

\* the arrays and the map a call of processAndCombineEvents works on, as the call
\* leaves them
\* slip: the arrays are emptied as they are read (shift() for forEach)
processAndCombineEventsDraining(heap) ==
  [ notionEvents |-> <<>>,
    morgenEvents |-> <<>>,
    eventMap |-> processAndCombineEvents(heap.notionEvents, heap.morgenEvents, heap.eventMap) ]
\* forEach reads the arrays; only the map is written
processAndCombineEventsCall(heap) ==
  [ notionEvents |-> heap.notionEvents,
    morgenEvents |-> heap.morgenEvents,
    eventMap |-> processAndCombineEvents(heap.notionEvents, heap.morgenEvents, heap.eventMap) ]

\* two calls on the same two arrays, each into a map of its own
ApplyCombineTwice ==
  /\ Applying("processAndCombineEventsTwice")
  /\ LET once == processAndCombineEventsCall(
                   [notionEvents |-> args[2], morgenEvents |-> args[3], eventMap |-> <<>>])
         twice == processAndCombineEventsCall([once EXCEPT !.eventMap = <<>>])
     IN Returns([first |-> once.eventMap, second |-> twice.eventMap])

ApplyCompare ==
  Applying("compareEvents") /\ Returns(compareEvents(args[2], args[3]))

\* the key of each record, and of the first record held alone in a pair
ApplyKeys ==
  /\ Applying("generateEventKey")
  /\ Returns([ first |-> generateEventKey(args[2]),
               second |-> generateEventKey(args[3]),
               notionOnly |-> generateEventPairKey(OnlyNotion(args[2])),
               morgenOnly |-> generateEventPairKey(OnlyMorgen(args[2])) ])

NextFn ==
  \/ ApplyPairsAreEqual
  \/ ApplyTagRoundTrip
  \/ ApplyCombine
  \/ ApplyCombineTwice
  \/ ApplyCompare
  \/ ApplyKeys

SpecFn == InitFn /\ [][NextFn]_vars


\* ================================================================== claims
Matched(pair) == Present(pair.notion) /\ Present(pair.morgen)
OneSided(pair) == Present(pair.notion) # Present(pair.morgen)
Creates == {"CreateA", "CreateB"}
Deletes == {"DeleteA", "DeleteB"}
Updates == {"UpdateA", "UpdateB"}
CallsOf(r, ops) == SelectSeq(r.calls, LAMBDA c : c.op \in ops)
\* the create calls of a pass whose originating record is the one side of a pair
CreatesFor(r, pair) ==
  SelectSeq(r.calls, LAMBDA c :
    \/ c.op = "CreateB" /\ Present(pair.notion) /\ c.id = Rec(pair.notion).notionPageId
    \/ c.op = "CreateA" /\ Present(pair.morgen) /\ c.id = Rec(pair.morgen).morgenEventId)
\* synchronizeEvents has returned: the pass is about to replace the baseline (line 144)
PassOver(i) == run[i].pc = "loop" /\ run[i].todo = <<>>
FirstPassOver(i) == run[i].first /\ PassOver(i)

C2_CreateAtMostOnce ==
  \A id \in DOMAIN createCalls : createCalls[id] <= 1

\* C3 as stated: at most one pass is in flight at any time.
C3_PassesNeverOverlap ==
  Cardinality({i \in Slots : InFlight(i)}) <= 1

\* C4 as stated: every delete call of a pass is for a key whose baseline pair had
\* both sides and whose new pair has exactly one side.
C4_DeleteOnlyFromMatchedBaseline ==
  \A i \in Slots : \A c \in Range(run[i].calls) :
    c.op \in Deletes =>
      /\ MapHas(run[i].oldMap, c.key)
      /\ Matched(MapGet(run[i].oldMap, c.key))
      /\ MapHas(run[i].newMap0, c.key)
      /\ OneSided(MapGet(run[i].newMap0, c.key))

\* C5 as stated: a delete call is issued only when the counterpart of the record was
\* really deleted upstream, that is, the counterpart the baseline pair held is gone
\* from its store (ids are never reused, so a record that is gone stays gone).
C5_DeleteOnlyAfterUpstreamDelete ==
  \A i \in Slots : \A c \in Range(run[i].calls) :
    /\ c.op = "DeleteA" =>
         ~MorgenHas(Rec(MapGet(run[i].oldMap, c.key).morgen).morgenEventId)
    /\ c.op = "DeleteB" =>
         ~NotionHas(Rec(MapGet(run[i].oldMap, c.key).notion).notionPageId)

\* C6: when synchronizeEvents has returned, a key whose baseline pair had both sides
\* and whose new pair has only the Notion side has a DeleteA call for that page, one
\* whose new pair has only the Morgen side has a DeleteB call for that event, and a
\* key of the baseline that is absent from the new map has no delete call.
C6_DeleteFollowsVanishedSide ==
  \A i \in Slots : PassOver(i) =>
    \A k \in 1..Len(run[i].oldMap) :
      LET key == run[i].oldMap[k].key
          old == run[i].oldMap[k].pair
      IN IF MapHas(run[i].newMap0, key)
         THEN LET new == MapGet(run[i].newMap0, key)
              IN Matched(old) =>
                   /\ Present(new.notion) /\ ~Present(new.morgen) =>
                        \E c \in Range(run[i].calls) :
                          /\ c.op = "DeleteA" /\ c.key = key
                          /\ c.id = Rec(new.notion).notionPageId
                   /\ Present(new.morgen) /\ ~Present(new.notion) =>
                        \E c \in Range(run[i].calls) :
                          /\ c.op = "DeleteB" /\ c.key = key
                          /\ c.id = Rec(new.morgen).morgenEventId
         ELSE \A c \in Range(run[i].calls) : c.op \in Deletes => c.key # key

\* a pass has ended in which the Morgen side of a matched baseline pair was missing
\* and the page was archived
C6_Witness ==
  \E i \in Slots :
    /\ PassOver(i)
    /\ \E k \in 1..Len(run[i].oldMap) :
         LET key == run[i].oldMap[k].key
         IN /\ Matched(run[i].oldMap[k].pair)
            /\ MapHas(run[i].newMap0, key)
            /\ ~Present(MapGet(run[i].newMap0, key).morgen)
            /\ \E c \in Range(run[i].calls) : c.op = "DeleteA" /\ c.key = key /\ c.ok

\* the update calls of a pass for a key
UpdatesFor(r, key) == SelectSeq(r.calls, LAMBDA c : c.op \in Updates /\ c.key = key)
\* the pair at position k of the new map of pass i was classified Changed with both
\* sides present, and its iteration is done
ChangedDone(i, k) ==
  /\ run[i].pc \in {"loop", "scan"}
  /\ Changed(run[i].oldMap, run[i].newMap0, run[i].newMap0[k].key)
  /\ Matched(run[i].newMap0[k].pair)
  /\ \A j \in 1..Len(run[i].todo) : run[i].todo[j] # run[i].newMap0[k].key

\* C7: for a pair classified Changed with both sides present exactly one update call
\* is issued: UpdateA with the Morgen content when the Morgen timestamp is strictly
\* greater, UpdateB with the Notion content otherwise (Notion newer, or equal).
C7_OneUpdateNewerWins ==
  \A i \in Slots : \A k \in 1..Len(run[i].newMap0) :
    ChangedDone(i, k) =>
      LET notion == Rec(run[i].newMap0[k].pair.notion)
          morgen == Rec(run[i].newMap0[k].pair.morgen)
          ups == UpdatesFor(run[i], run[i].newMap0[k].key)
      IN /\ Len(ups) = 1
         /\ IF LexGreater(morgen.lastUpdate, notion.lastUpdate)
            THEN ups[1].op = "UpdateA" /\ ups[1].id = notion.notionPageId
                 /\ ups[1].title = morgen.title
            ELSE ups[1].op = "UpdateB" /\ ups[1].id = morgen.morgenEventId
                 /\ ups[1].title = notion.title

\* a Changed pair with equal timestamps has been resolved
C7_Witness ==
  \E i \in Slots : \E k \in 1..Len(run[i].newMap0) :
    /\ ChangedDone(i, k)
    /\ Rec(run[i].newMap0[k].pair.notion).lastUpdate
         = Rec(run[i].newMap0[k].pair.morgen).lastUpdate
    /\ UpdatesFor(run[i], run[i].newMap0[k].key) # <<>>

\* C8 as stated: when the baseline holds a pair with both sides, the Notion title
\* differing from the Morgen title and the Morgen timestamp the greater, the pass that
\* fetches the same two records issues UpdateA with the Morgen title.
C8_NewerMorgenTitleIsPushed ==
  \A i \in Slots : PassOver(i) =>
    \A k \in 1..Len(run[i].oldMap) :
      LET key == run[i].oldMap[k].key
          old == run[i].oldMap[k].pair
      IN ( /\ Matched(old)
           /\ Rec(old.notion).title # Rec(old.morgen).title
           /\ LexGreater(Rec(old.morgen).lastUpdate, Rec(old.notion).lastUpdate)
           /\ MapHas(run[i].newMap0, key)
           /\ MapGet(run[i].newMap0, key) = old )
         => \E c \in Range(run[i].calls) :
              /\ c.op = "UpdateA" /\ c.id = Rec(old.notion).notionPageId
              /\ c.title = Rec(old.morgen).title

\* what a pass would fetch from the stores as they are
CurrentMap ==
  processAndCombineEvents(
    [k \in 1..Len(getTasksFromNotionDatabase) |->
       convertNotionToUniversal(getTasksFromNotionDatabase[k])],
    [k \in 1..Len(getEventsFromMorgenAPI(TRUE)) |->
       convertMorgenToUniversal(getEventsFromMorgenAPI(TRUE)[k])],
    <<>>)
\* every record has its counterpart and the two agree in title, description and date
InAgreement(map) ==
  \A k \in 1..Len(map) :
    /\ Matched(map[k].pair)
    /\ ~compareEvents(Rec(map[k].pair.notion), Rec(map[k].pair.morgen))
\* pass i has ended without issuing a call, on stores that are still what it fetched:
\* every later pass fetches the same and does the same
Settled(i) ==
  /\ PassOver(i)
  /\ run[i].morgenOk
  /\ run[i].calls = <<>>
  /\ CurrentMap = run[i].newMap0

\* C9 as stated, for the runs in which every external call succeeded: once the passes
\* have settled, the two stores are in agreement.
C9_SettledInAgreement ==
  \A i \in Slots : Settled(i) /\ failures = 0 => InAgreement(run[i].newMap0)

\* C10 as stated: a one-sided pair whose create call failed in the pass that made the
\* baseline, and which the next pass fetches unchanged, has a create call in that pass.
C10_FailedCreateIsRetried ==
  \A i \in Slots : PassOver(i) /\ ~run[i].first =>
    \A key \in createFailed :
      ( /\ MapHas(run[i].oldMap, key)
        /\ MapHas(run[i].newMap0, key)
        /\ OneSided(MapGet(run[i].newMap0, key))
        /\ MapGet(run[i].newMap0, key) = MapGet(run[i].oldMap, key) )
      => \E c \in Range(run[i].calls) : c.op \in Creates /\ c.key = key

\* C11 as stated: an update or delete call that failed in the pass that made the
\* baseline is issued again, for the same record, by the next pass when that pass
\* fetches what the baseline holds.
C11_FailedCallIsRetried ==
  \A i \in Slots : PassOver(i) /\ ~run[i].first =>
    \A f \in lastFailed :
      Range(run[i].newMap0) = Range(run[i].oldMap)
        => \E c \in Range(run[i].calls) : c.op = f.op /\ c.id = f.id

\* what the iteration of a key of the fetched map leaves in the call log: an update
\* for a Changed pair with both sides, a create for a one-sided pair that is new, a
\* delete for a one-sided pair whose baseline pair had the other side
Handled(r, key) ==
  LET pair == MapGet(r.newMap0, key)
      old == MapGet(r.oldMap, key)
      for(ops) == \E c \in Range(r.calls) : c.op \in ops /\ c.key = key
  IN /\ Changed(r.oldMap, r.newMap0, key) /\ Matched(pair) => for(Updates)
     /\ Appeared(r.oldMap, key) /\ OneSided(pair) => for(Creates)
     /\ ( /\ MapHas(r.oldMap, key)
          /\ \/ ~Present(pair.morgen) /\ Present(old.morgen)
             \/ ~Present(pair.notion) /\ Present(old.notion) ) => for(Deletes)
SomeCallFailed(r) == \E c \in Range(r.calls) : ~c.ok

\* C12: a pass in which a create, update, delete or back-link call failed still
\* handles every key of the map it fetched, and the step that ends it makes its map
\* the baseline.
C12_FailureDoesNotAbortPass ==
  [][\A i \in Slots :
       PassOver(i) /\ SomeCallFailed(run[i]) /\ run'[i].pc = "off" =>
         /\ oldUniversalEventMap' = run[i].newMap
         /\ \A k \in 1..Len(run[i].newMap0) : Handled(run[i], run[i].newMap0[k].key)]_vars

\* a pass has ended in which a call failed and a later call was issued for another key
C12_Witness ==
  \E i \in Slots :
    /\ PassOver(i)
    /\ \E j, l \in 1..Len(run[i].calls) :
         /\ j < l
         /\ ~run[i].calls[j].ok
         /\ run[i].calls[l].key # run[i].calls[j].key

\* C13 as stated: no invocation of main rejects, whichever fetch fails; every pass
\* goes on to its end.
C13_MainNeverRejects ==
  \A i \in Slots : run[i].pc # "rejected"

\* the entry of newMap holds, alone, the record a create call started from
TransientEntryOf(entry, c) ==
  /\ OneSided(entry.pair)
  /\ \/ /\ c.op = "CreateB" /\ Present(entry.pair.notion)
        /\ Rec(entry.pair.notion).notionPageId = c.id
     \/ /\ c.op = "CreateA" /\ Present(entry.pair.morgen)
        /\ Rec(entry.pair.morgen).morgenEventId = c.id
\* the entry of newMap holds the record a create call started from together with
\* its new counterpart, both sides carrying both identifiers
MatchedEntryOf(entry, c) ==
  /\ Matched(entry.pair)
  /\ Rec(entry.pair.notion).notionPageId = Rec(entry.pair.morgen).notionPageId
  /\ Rec(entry.pair.notion).morgenEventId = Rec(entry.pair.morgen).morgenEventId
  /\ Rec(entry.pair.notion).notionPageId # ""
  /\ Rec(entry.pair.notion).morgenEventId # ""
  /\ \/ c.op = "CreateB" /\ Rec(entry.pair.notion).notionPageId = c.id
     \/ c.op = "CreateA" /\ Rec(entry.pair.morgen).morgenEventId = c.id

\* C14 as stated, less its clause on the key: after a successful create in a pass
\* whose two fetches were answered, newMap holds no one-sided entry of the originating
\* record and holds a matched pair of it whose two sides carry both identifiers.
C14_CreateReplacesTransientEntry ==
  \A i \in Slots : \A c \in Range(run[i].calls) :
    run[i].morgenOk /\ c.op \in Creates /\ c.ok =>
      /\ \A k \in 1..Len(run[i].newMap) : ~TransientEntryOf(run[i].newMap[k], c)
      /\ \E k \in 1..Len(run[i].newMap) : MatchedEntryOf(run[i].newMap[k], c)

\* the pair a pass fetched is the pair the baseline holds: equal by the differ when
\* both have both sides, the same record on the same single side otherwise
SamePair(old, new) ==
  IF Matched(old) /\ Matched(new) THEN eventPairsAreEqual(old, new) ELSE old = new
SameAsBaseline(r) ==
  /\ r.oldMap # <<>>
  /\ Range(MapKeys(r.oldMap)) = Range(MapKeys(r.newMap0))
  /\ \A k \in 1..Len(r.oldMap) :
       SamePair(r.oldMap[k].pair, MapGet(r.newMap0, r.oldMap[k].key))

\* C15: a pass that fetched exactly what the non-empty baseline holds issues no call.
C15_SameSnapshotNoCall ==
  \A i \in Slots :
    run[i].pc \in {"loop", "scan"} /\ SameAsBaseline(run[i]) => run[i].calls = <<>>

\* such a pass has ended, and its baseline held a one-sided pair
C15_Witness ==
  \E i \in Slots :
    /\ PassOver(i)
    /\ SameAsBaseline(run[i])
    /\ \E k \in 1..Len(run[i].oldMap) : OneSided(run[i].oldMap[k].pair)

\* a function has been applied to the inputs drawn
Applied(name) == args # <<>> /\ args[1] = name /\ result # <<>>

\* C16 as stated: a pair compared with itself by eventPairsAreEqual is equal, whether
\* it holds the Notion side only, the Morgen side only, or both.
C16_PairEqualityReflexive ==
  Applied("eventPairsAreEqual") /\ args[2] = args[3] => result[1] = TRUE

\* C17 as stated: the description written for page id and text d by the back-link
\* step, by createMorgenEventFromTask or by updateMorgenEvent is normalized back to
\* pageId = id and description = d.
C17_TagRoundTrip ==
  Applied("tag") => result[1].pageId = args[3] /\ result[1].description = args[4]

\* the keys of a sequence of records, and the first and the last record of a key
KeysOf(events) == {generateEventKey(events[k]) : k \in 1..Len(events)}
FirstWithKey(events, key) ==
  events[CHOOSE k \in 1..Len(events) :
           /\ generateEventKey(events[k]) = key
           /\ \A j \in 1..(k - 1) : generateEventKey(events[j]) # key]
LastWithKey(events, key) ==
  events[CHOOSE k \in 1..Len(events) :
           /\ generateEventKey(events[k]) = key
           /\ \A j \in (k + 1)..Len(events) : generateEventKey(events[j]) # key]

\* C18: in the map processAndCombineEvents builds from two sequences every entry has
\* a side; the Notion side of a key is the first Notion record of that key; a Morgen
\* record is attached to the entry of its key when there is one and makes a
\* Morgen-only entry otherwise; there is one entry per distinct key of the inputs.
C18_CombineInvariants ==
  Applied("processAndCombineEvents") =>
    LET notionEvents == args[2]
        morgenEvents == args[3]
        map == result[1]
    IN /\ \A k \in 1..Len(map) : Present(map[k].pair.notion) \/ Present(map[k].pair.morgen)
       /\ \A k, l \in 1..Len(map) : map[k].key = map[l].key => k = l
       /\ Range(MapKeys(map)) = KeysOf(notionEvents) \cup KeysOf(morgenEvents)
       /\ Len(map) = Cardinality(KeysOf(notionEvents) \cup KeysOf(morgenEvents))
       /\ \A key \in KeysOf(notionEvents) :
            /\ MapGet(map, key).notion = <<FirstWithKey(notionEvents, key)>>
            /\ key \notin KeysOf(morgenEvents) => MapGet(map, key).morgen = Absent
       /\ \A key \in KeysOf(morgenEvents) :
            /\ MapGet(map, key).morgen = <<LastWithKey(morgenEvents, key)>>
            /\ key \notin KeysOf(notionEvents) => MapGet(map, key).notion = Absent

\* the function was applied to two different Notion records of one key and a Morgen
\* record of that key
C18_Witness ==
  /\ Applied("processAndCombineEvents")
  /\ Len(args[2]) = 2
  /\ args[2][1] # args[2][2]
  /\ generateEventKey(args[2][1]) = generateEventKey(args[2][2])
  /\ generateEventKey(args[2][1]) \in KeysOf(args[3])

\* C19: compareEvents returns false exactly when the titles are the same, the trimmed
\* descriptions are the same, the days are the same and, if both dates have a time,
\* the dates are the same; nothing else is read.
C19_CompareEventsIff ==
  Applied("compareEvents") =>
    LET truthEvent == args[2]
        compareEvent == args[3]
    IN (result[1] = FALSE) <=>
         /\ truthEvent.title = compareEvent.title
         /\ Trim(truthEvent.description) = Trim(compareEvent.description)
         /\ DatePart(truthEvent.date) = DatePart(compareEvent.date)
         /\ HasTime(truthEvent.date) /\ HasTime(compareEvent.date)
              => truthEvent.date = compareEvent.date

\* two records were found equal that differ in the blanks of the description, in the
\* page id, the duration and the timestamp, one of them an all-day record
C19_Witness ==
  /\ Applied("compareEvents")
  /\ result[1] = FALSE
  /\ args[2].description # args[3].description
  /\ args[2].notionPageId # args[3].notionPageId
  /\ args[2].duration # args[3].duration
  /\ args[2].lastUpdate # args[3].lastUpdate
  /\ HasTime(args[2].date) /\ ~HasTime(args[3].date)

\* C20: two records with the same two identifiers have the same key whatever else
\* they hold, and a pair that holds one record alone has the key of that record.
C20_KeyFromIdentifiersOnly ==
  Applied("generateEventKey") =>
    /\ ( /\ args[2].morgenEventId = args[3].morgenEventId
         /\ args[2].notionPageId = args[3].notionPageId ) => result[1].first = result[1].second
    /\ result[1].notionOnly = result[1].first
    /\ result[1].morgenOnly = result[1].first

\* the keys were made of two records with the same identifiers and another title,
\* date and timestamp
C20_Witness ==
  /\ Applied("generateEventKey")
  /\ args[2].morgenEventId = args[3].morgenEventId
  /\ args[2].notionPageId = args[3].notionPageId
  /\ args[2].title # args[3].title
  /\ args[2].date # args[3].date
  /\ args[2].lastUpdate # args[3].lastUpdate

C22_DeleteAtMostOncePerPass ==
  \A i \in Slots : \A j, l \in 1..Len(run[i].calls) :
    ( /\ j < l
      /\ run[i].calls[j].op \in Deletes
      /\ run[i].calls[l].op = run[i].calls[j].op )
    => run[i].calls[l].id # run[i].calls[j].id

\* the entries of a map that hold the page or the event of a completed pair
EntriesFor(map, m) ==
  {k \in 1..Len(map) :
     \/ Present(map[k].pair.notion) /\ Rec(map[k].pair.notion).notionPageId = m.page
     \/ Present(map[k].pair.morgen) /\ Rec(map[k].pair.morgen).morgenEventId = m.event}
\* the calls of a pass that create, update or delete, and are about the page or the
\* event of a completed pair
CallsAbout(r, m) ==
  SelectSeq(r.calls, LAMBDA c :
    c.op \in Creates \cup Updates \cup Deletes /\ c.id \in {m.page, m.event})

\* C23 as stated, for a next pass whose two fetches were answered: a pair completed in
\* the pass that made the baseline (create and back-link both done), with no upstream
\* action since, has exactly one entry in the map the next pass builds, that entry has
\* both sides, and the next pass issues no create, update or delete call for it.
C23_CreatedPairIsLeftAlone ==
  \A i \in Slots : PassOver(i) /\ run[i].morgenOk =>
    \A m \in lastCreated :
      m.edits = edits =>
        /\ Cardinality(EntriesFor(run[i].newMap0, m)) = 1
        /\ \A k \in EntriesFor(run[i].newMap0, m) : Matched(run[i].newMap0[k].pair)
        /\ CallsAbout(run[i], m) = <<>>

\* no create call has been issued: every pair there is was linked by the user
NoCreateYet == \A id \in DOMAIN createCalls : createCalls[id] = 0

\* C24 as stated, for a next pass whose two fetches were answered and pairs the engine
\* did not create: a key that the pass which made the baseline resolved by an update
\* call that succeeded, and whose pair still has both sides with no upstream action
\* since, is classified Unchanged by the next pass, which issues no update call for it.
C24_OwnWriteIsNotAnEdit ==
  \A i \in Slots :
    PassOver(i) /\ run[i].morgenOk /\ NoCreateYet =>
    \A u \in lastResolved :
      ( /\ u.edits = edits
        /\ MapHas(run[i].newMap0, u.key)
        /\ Matched(MapGet(run[i].newMap0, u.key)) ) =>
        /\ Unchanged(run[i].oldMap, run[i].newMap0, u.key)
        /\ UpdatesFor(run[i], u.key) = <<>>

\* C25 as stated: a pass that is about to replace the baseline built its map from a
\* snapshot fetched later than the snapshot of the map the baseline holds.
C25_BaselineNeverGoesBack ==
  \A i \in Slots : PassOver(i) => ~run[i].behind

\* the create calls of a pass that failed
FailedCreates(r) == {c \in Range(r.calls) : c.op \in Creates /\ ~c.ok}
\* the step of pass i appends a create call that fails
FailedCreateStep(i) ==
  /\ Len(run'[i].calls) > Len(run[i].calls)
  /\ run'[i].calls[Len(run[i].calls) + 1].op \in Creates
  /\ ~run'[i].calls[Len(run[i].calls) + 1].ok

\* C26: the step in which a create call fails leaves newMap as it was (no entry added,
\* removed or modified) and issues no back-link write, and the step that ends the pass
\* puts the one-sided entry, under its key and as it was fetched, in the baseline.
C26_FailedCreateLeavesMap ==
  [][\A i \in Slots :
       /\ FailedCreateStep(i) =>
            /\ run'[i].newMap = run[i].newMap
            /\ Len(run'[i].calls) = Len(run[i].calls) + 1
       /\ PassOver(i) /\ run'[i].pc = "off" =>
            \A c \in FailedCreates(run[i]) :
              /\ MapHas(oldUniversalEventMap', c.key)
              /\ OneSided(MapGet(oldUniversalEventMap', c.key))
              /\ MapGet(oldUniversalEventMap', c.key) = MapGet(run[i].newMap0, c.key)]_vars

\* a pass is over in which notion.pages.create failed for a Morgen-only pair, and the
\* pair is still in newMap under its key
C26_Witness ==
  \E i \in Slots :
    /\ PassOver(i)
    /\ \E c \in FailedCreates(run[i]) :
         /\ c.op = "CreateA"
         /\ MapHas(run[i].newMap, c.key)

\* the records of the two stores that carry the identifiers of a key
PageOfKey(key) == {p \in notionDb : generateEventKey(convertNotionToUniversal(pageToTask(p))) = key}
EventOfKey(key) == {e \in morgenDb : generateEventKey(convertMorgenToUniversal(convertToMorgenEvent(e))) = key}

\* C27: after a successful updateNotionTask or updateMorgenEvent for a matched pair, the
\* page and the event of the pair, as far as they are still in their stores, carry the
\* identifiers of the pair's key, and with no upstream action since the update the next
\* pass whose fetches were both answered has the pair, both sides present, under the
\* same key.
C27_UpdateKeepsCrossReferences ==
  \A i \in Slots :
    /\ \A u \in run[i].resolved :
         /\ \A p \in notionDb : p.id = u.page => p \in PageOfKey(u.key)
         /\ \A e \in morgenDb : e.id = u.event => e \in EventOfKey(u.key)
    /\ HasSnapshot(run[i]) /\ run[i].morgenOk =>
         \A u \in lastResolved :
           ( /\ u.edits = edits
             /\ \E p \in notionDb : p.id = u.page
             /\ \E e \in morgenDb : e.id = u.event ) =>
             /\ MapHas(run[i].newMap0, u.key)
             /\ Matched(MapGet(run[i].newMap0, u.key))

\* the pass after one with a successful update has fetched both stores, nothing was
\* edited in between, and of the pair's two records the Morgen event was written last
C27_Witness ==
  \E i \in Slots :
    /\ HasSnapshot(run[i]) /\ run[i].morgenOk
    /\ \E u \in lastResolved :
         /\ u.edits = edits
         /\ MapHas(run[i].newMap0, u.key)
         /\ Matched(MapGet(run[i].newMap0, u.key))
         /\ \E p \in PageOfKey(u.key), e \in EventOfKey(u.key) :
              LexGreater(e.updated, p.lastUpdate)
====
